---------------------------- MODULE Spec2Model ----------------------------
(***************************************************************************)
(* State-machine model of the shop application (src/app/views.py and       *)
(* src/app/models.py): the session cart, checkout / order creation, and    *)
(* registration.                                                           *)
(*                                                                         *)
(* Money is counted in hundredths (DecimalField with decimal_places=2).    *)
(* Each ORM call is its own database transaction (there is no atomic       *)
(* block in the views); flash messages are not part of the state.          *)
(* Text that the code converts (the POST field qty, e-mail addresses,      *)
(* user names, cart keys) is a sequence of one-character strings, so that  *)
(* int(), str(), strip() and lower() are computed, not assumed; the text   *)
(* is ASCII.  A user is known by the primary key of its User row, which is *)
(* the position of the row; 0 stands for AnonymousUser.                    *)
(***************************************************************************)
EXTENDS Integers, Sequences, FiniteSets, TLC

\* ------------------------------------------------------------------ bounds
\* Largest quantity a cart line is driven to (cart_add is not taken beyond it,
\* and the qty fields submitted to cart_update stay within it).
MaxQty == 2
\* Largest number of Order rows (one is on record from the start).
MaxOrders == 2
\* Number of requests issued in the concurrent specification.
MaxRequests == 3
\* Largest number of User rows created in the registration specification.
MaxUsers == 2

\* --------------------------------------------------------------- universes
ProductIds == {1, 2}
Prices == {1000, 2500}
SessionIds == {"s1", "s2"}
NoUser == 0
None == "None"
ContactFields == {"full_name", "email", "phone", "address", "city", "state", "pincode"}
Methods == {"GET", "POST"}

\* ------------------------------------------------------------ text helpers
Digits == <<"0", "1", "2", "3", "4", "5", "6", "7", "8", "9">>

DigitSet == {Digits[i] : i \in 1..Len(Digits)}

DigitVal(c) == (CHOOSE i \in 1..Len(Digits) : Digits[i] = c) - 1

\* str(n) for an integer n.
RECURSIVE NatToStr(_)
NatToStr(n) == IF n < 10 THEN <<Digits[n + 1]>>
               ELSE NatToStr(n \div 10) \o <<Digits[(n % 10) + 1]>>

IntToStr(n) == IF n < 0 THEN <<"-">> \o NatToStr(0 - n) ELSE NatToStr(n)

\* The value of a digit string; a "_" that groups digits counts for nothing.
RECURSIVE DigitsValue(_)
DigitsValue(s) ==
    IF s = <<>> THEN 0
    ELSE IF s[Len(s)] = "_" THEN DigitsValue(SubSeq(s, 1, Len(s) - 1))
    ELSE DigitsValue(SubSeq(s, 1, Len(s) - 1)) * 10 + DigitVal(s[Len(s)])

\* Digits, with single "_" allowed between two digits.
IsDigitString(s) ==
    /\ s # <<>>
    /\ \A i \in 1..Len(s) : s[i] \in DigitSet \cup {"_"}
    /\ s[1] # "_" /\ s[Len(s)] # "_"
    /\ \A i \in 1..(Len(s) - 1) : ~(s[i] = "_" /\ s[i + 1] = "_")

\* The control characters 0x0B (vertical tab) and 0x1C to 0x1F (file, group,
\* record and unit separator), written as themselves.
VT == ""
FS == ""
GS == ""
RS == ""
US == ""

\* The ASCII characters str.strip() removes.
Whitespace == {" ", "\t", "\n", VT, "\f", "\r", FS, GS, RS, US}

\* The ASCII characters int() skips around the number.
IntWhitespace == {" ", "\t", "\n", VT, "\f", "\r"}

\* Leading and trailing characters of the set chars removed.
RECURSIVE StripChars(_, _)
StripChars(s, chars) ==
    IF s = <<>> THEN s
    ELSE IF Head(s) \in chars THEN StripChars(Tail(s), chars)
    ELSE IF s[Len(s)] \in chars THEN StripChars(SubSeq(s, 1, Len(s) - 1), chars)
    ELSE s

\* str.strip()
Strip(s) == StripChars(s, Whitespace)

\* int(text): whitespace stripped, an optional sign, then digits; anything
\* else raises ValueError (ok = FALSE).
ParseInt(raw) ==
    LET s == StripChars(raw, IntWhitespace)
        signed == s # <<>> /\ Head(s) \in {"+", "-"}
        body == IF signed THEN Tail(s) ELSE s
    IN IF ~IsDigitString(body)
       THEN [ok |-> FALSE, val |-> 0]
       ELSE [ok |-> TRUE,
             val |-> IF signed /\ Head(s) = "-" THEN 0 - DigitsValue(body)
                     ELSE DigitsValue(body)]

UpperLetters == <<"A", "B", "C", "D", "E", "F", "G", "H", "I", "J", "K", "L", "M",
                  "N", "O", "P", "Q", "R", "S", "T", "U", "V", "W", "X", "Y", "Z">>

LowerLetters == <<"a", "b", "c", "d", "e", "f", "g", "h", "i", "j", "k", "l", "m",
                  "n", "o", "p", "q", "r", "s", "t", "u", "v", "w", "x", "y", "z">>

LowerChar(c) ==
    IF \E i \in 1..Len(UpperLetters) : UpperLetters[i] = c
    THEN LowerLetters[CHOOSE i \in 1..Len(UpperLetters) : UpperLetters[i] = c]
    ELSE c

\* str.lower()
Lower(s) == [i \in 1..Len(s) |-> LowerChar(s[i])]

\* ------------------------------------------------------------ session cart
\* The cart is a Python dict {str(product_id): qty}: keys are unique and keep
\* their insertion order, so it is a sequence of (key, qty) lines.
CartKeys(cart) == {cart[i].key : i \in 1..Len(cart)}

CartIndex(cart, k) == CHOOSE i \in 1..Len(cart) : cart[i].key = k

\* cart.get(k, default)
CartGet(cart, k, default) ==
    IF k \in CartKeys(cart) THEN cart[CartIndex(cart, k)].qty ELSE default

\* cart[k] = v
CartSet(cart, k, v) ==
    IF k \in CartKeys(cart)
    THEN [cart EXCEPT ![CartIndex(cart, k)].qty = v]
    ELSE Append(cart, [key |-> k, qty |-> v])

\* cart.pop(k, None)
CartPop(cart, k) ==
    IF k \in CartKeys(cart)
    THEN LET i == CartIndex(cart, k)
         IN SubSeq(cart, 1, i - 1) \o SubSeq(cart, i + 1, Len(cart))
    ELSE cart

\* request.session.get('cart', {})
GetCart(session) == session.cart

\* request.session['cart'] = cart
SaveCart(session, cart) == [session EXCEPT !.cart = cart]

\* str(product_id), the cart key written by the cart views.
KeyOf(product_id) == IntToStr(product_id)

\* pk=pid: the key read back as a primary key.
PkOf(key) == ParseInt(key).val

RECURSIVE SumQty(_)
SumQty(cart) == IF cart = <<>> THEN 0 ELSE Head(cart).qty + SumQty(Tail(cart))


\* ------------------------------------------------------------------- state
VARIABLES
    products,    \* Product rows by primary key: [is_active, price, stock]
    sessions,    \* session store: per session [user, cart]
    orders,      \* Order rows; the primary key is the position
    orderItems,  \* OrderItem rows, in insertion order: [order, product, qty, price]
    users,       \* User rows, in insertion order: [username, email, password]
    response,    \* the response to the last request handled to completion
    reqs         \* requests in flight (concurrent specifications)

vars == <<products, sessions, orders, orderItems, users, response, reqs>>

NoResponse == [view |-> "none", code |-> 0, to |-> "", note |-> ""]

Redirect(view, to, note) == [view |-> view, code |-> 302, to |-> to, note |-> note]

Http404(view) == [view |-> view, code |-> 404, to |-> "", note |-> "Http404"]

ServerError(view, exc) == [view |-> view, code |-> 500, to |-> "", note |-> exc]

Render(view, template, note) == [view |-> view, code |-> 200, to |-> template, note |-> note]

EmptySession == [user |-> NoUser, cart |-> <<>>]

\* ----------------------------------------------------------------- catalog
\* get_object_or_404(Product, pk=pk, is_active=True) finds a row.
ActiveProduct(prods, pk) == pk \in DOMAIN prods /\ prods[pk].is_active

\* Mutants of StockAfter: the floor at 0 forgotten.
StockAfterNoFloor(stock, qty) == stock - qty

StockAfterUnclamped(stock, qty) == IF stock > 0 THEN stock - qty ELSE 0

\* product.stock = max(0, product.stock - qty)
StockAfter(stock, qty) == IF stock - qty > 0 THEN stock - qty ELSE 0

\* Mutant of NewOrderItem: the line's subtotal stored as its price.
NewOrderItemSubtotal(order_id, pk, product, qty) ==
    [order |-> order_id, product |-> pk, qty |-> qty, price |-> product.price * qty]

\* OrderItem.objects.create(order=order, product=product, qty=qty, price=product.price)
NewOrderItem(order_id, pk, product, qty) ==
    [order |-> order_id, product |-> pk, qty |-> qty, price |-> product.price]

\* OrderItem.subtotal
Subtotal(item) == item.qty * item.price

RECURSIVE SumSubtotals(_)
SumSubtotals(items) ==
    IF items = <<>> THEN 0 ELSE Subtotal(Head(items)) + SumSubtotals(Tail(items))

\* order.items.all()
ItemsOf(items, order_id) == SelectSeq(items, LAMBDA it : it.order = order_id)

\* Order.total_amount
TotalAmount(items, order_id) == SumSubtotals(ItemsOf(items, order_id))

\* ------------------------------------------------------------ cart handlers
\* cart_add, after the product lookup succeeded.
CartAfterAdd(cart, product_id) ==
    CartSet(cart, KeyOf(product_id), CartGet(cart, KeyOf(product_id), 0) + 1)

\* Mutant of CartAfterUpdate: only a negative qty removes the line.
CartAfterUpdateNegativeOnly(cart, product_id, qty) ==
    IF qty < 0 THEN CartPop(cart, KeyOf(product_id))
    ELSE CartSet(cart, KeyOf(product_id), qty)

\* cart_update (POST), after qty was parsed.
CartAfterUpdate(cart, product_id, qty) ==
    IF qty <= 0 THEN CartPop(cart, KeyOf(product_id))
    ELSE CartSet(cart, KeyOf(product_id), qty)

\* cart_remove
CartAfterRemove(cart, product_id) == CartPop(cart, KeyOf(product_id))

\* request.POST.get('qty', '1')
QtyField(post_qty) == IF post_qty.present THEN post_qty.text ELSE <<"1">>

\* Mutant of CartIsEmpty: `if cart is None`, which an empty dict never is.
CartIsNone(cart) == FALSE

\* `if not cart`
CartIsEmpty(cart) == Len(cart) = 0

\* The NOT NULL columns of Order reject a field absent from the POST data.
OrderInsertFails(contact) == \E f \in ContactFields : contact[f] = None

\* Order.objects.create(user=request.user, ..., paid=True)
NewOrder(user, contact) == [user |-> user, contact |-> contact, paid |-> TRUE]

\* The loop `for pid, qty in cart.items()` of checkout from line i on, writing
\* as it goes; it stops at the first line whose product is not found.
RECURSIVE CheckoutItems(_, _, _, _, _)
CheckoutItems(cart, i, prods, items, order_id) ==
    IF i > Len(cart) THEN [ok |-> TRUE, products |-> prods, items |-> items]
    ELSE LET pk == PkOf(cart[i].key)
             qty == cart[i].qty
         IN IF ~ActiveProduct(prods, pk)
            THEN [ok |-> FALSE, products |-> prods, items |-> items]
            ELSE CheckoutItems(cart, i + 1,
                     [prods EXCEPT ![pk].stock = StockAfter(prods[pk].stock, qty)],
                     Append(items, NewOrderItem(order_id, pk, prods[pk], qty)),
                     order_id)

\* ------------------------------------------------------------------ inputs
\* Product ids a URL carries: rows of the catalog, which may since have been
\* deactivated or deleted.
UrlProductIds == ProductIds

Absent == [present |-> FALSE, text |-> <<>>]

Field(text) == [present |-> TRUE, text |-> text]

\* POST data of cart_update: no qty field, every quantity up to the bound,
\* a negative one, one padded with blanks, and two that int() rejects.
QtyPosts ==
    {Absent} \cup {Field(IntToStr(n)) : n \in 0..MaxQty}
             \cup {Field(<<"-", "1">>), Field(<<VT, "+", "2", "\n">>), Field(<<"x">>), Field(<<>>)}

FilledContact == [f \in ContactFields |-> "x"]

\* POST data of checkout: complete, with one field left blank, with one
\* field absent from the form.
ContactPosts ==
    {FilledContact,
     [FilledContact EXCEPT !["full_name"] = ""],
     [FilledContact EXCEPT !["city"] = None]}

\* ---------------------------------------------------------------- accounts
\* Form data of register_view as typed.
RawUsernames == {<<"u">>, <<" ", "v">>, <<" ", US>>}

RawEmails == {<<"a", "@", "x">>, <<"A", "@", "X">>, <<" ", "b", "@", "x">>}

Passwords == {"pw", "typo"}

\* create_user normalizes the address: stripped, and the part after the last
\* "@" in lower case; an address without "@" is kept as it is.
NormalizeEmail(email) ==
    LET e == Strip(email)
    IN IF \E i \in 1..Len(e) : e[i] = "@"
       THEN LET at == CHOOSE i \in 1..Len(e) :
                        e[i] = "@" /\ \A j \in (i + 1)..Len(e) : e[j] # "@"
            IN SubSeq(e, 1, at) \o Lower(SubSeq(e, at + 1, Len(e)))
       ELSE email

\* User.objects.filter(username=username).exists()
UsernameTaken(rows, username) == \E i \in 1..Len(rows) : rows[i].username = username

\* User.objects.filter(email=email).exists()
EmailRegistered(rows, email) == \E i \in 1..Len(rows) : rows[i].email = email

\* make_password / check_password: the password is stored hashed.
MakePassword(password) == <<"hash", password>>

CheckPassword(password, encoded) == encoded = MakePassword(password)

\* User.objects.create_user(username, email, password): an empty username is
\* refused (ValueError), the username column is unique in the database
\* (IntegrityError), the email column is not.
CreateUser(rows, username, email, password) ==
    IF username = <<>>
    THEN [ok |-> FALSE, exc |-> "ValueError", users |-> rows]
    ELSE IF UsernameTaken(rows, username)
    THEN [ok |-> FALSE, exc |-> "IntegrityError", users |-> rows]
    ELSE [ok |-> TRUE, exc |-> "",
          users |-> Append(rows, [username |-> username,
                                  email |-> NormalizeEmail(email),
                                  password |-> MakePassword(password)])]

\* authenticate(request, username=..., password=...): the primary key of the
\* user with this username and password, NoUser for None.
Authenticate(rows, username, password) ==
    IF \E i \in 1..Len(rows) :
          rows[i].username = username /\ CheckPassword(password, rows[i].password)
    THEN CHOOSE i \in 1..Len(rows) :
          rows[i].username = username /\ CheckPassword(password, rows[i].password)
    ELSE NoUser

\* User.objects.get(email=...): the rows the lookup matches.
UsersWithEmail(rows, email) == {i \in 1..Len(rows) : rows[i].email = email}

\* django.contrib.auth.login on an anonymous session: the user is recorded,
\* the session data (the cart) is kept.
Login(session, user) == [session EXCEPT !.user = user]

\* django.contrib.auth.logout: the session is flushed.
Logout(session) == EmptySession

\* Names and addresses typed into the login form.
LoginNames == {<<"a", "l", "i", "c", "e">>, <<"a", "@", "x">>, <<"b", "o", "b">>}

\* ----------------------------------------------------------- initial state
\* The shop has traded before: one earlier order of one unit of product 1
\* (bought at 10.00 from a stock of 3) is on record.
InitProducts ==
    (1 :> [is_active |-> TRUE, price |-> 1000, stock |-> 2])
    @@ (2 :> [is_active |-> TRUE, price |-> 2500, stock |-> 1])

\* The registered customer, alice, with password "pw".
InitUsers == CreateUser(<<>>, <<"a", "l", "i", "c", "e">>, <<"a", "@", "x">>, "pw").users

InitOrders == <<NewOrder(1, FilledContact)>>

InitOrderItems == <<[order |-> 1, product |-> 1, qty |-> 1, price |-> 1000]>>

\* Nobody is logged in.
InitSessions == [sid \in SessionIds |-> EmptySession]

Init ==
    /\ products = InitProducts
    /\ sessions = InitSessions
    /\ orders = InitOrders
    /\ orderItems = InitOrderItems
    /\ users = InitUsers
    /\ response = NoResponse
    /\ reqs = <<>>

\* --------------------------------------- requests handled one at a time
\* cart_add(request, product_id)
CartAdd(sid, product_id) ==
    /\ IF ActiveProduct(products, product_id)
       THEN /\ CartGet(GetCart(sessions[sid]), KeyOf(product_id), 0) < MaxQty
            /\ sessions' = [sessions EXCEPT ![sid] =
                   SaveCart(@, CartAfterAdd(GetCart(@), product_id))]
            /\ response' = Redirect("cart_add", "cart", "")
       ELSE /\ sessions' = sessions
            /\ response' = Http404("cart_add")
    /\ UNCHANGED <<products, orders, orderItems, users, reqs>>

\* cart_update(request, product_id)
CartUpdate(sid, method, product_id, post_qty) ==
    /\ IF method = "POST"
       THEN LET qty == ParseInt(QtyField(post_qty))
            IN IF qty.ok
               THEN /\ sessions' = [sessions EXCEPT ![sid] =
                           SaveCart(@, CartAfterUpdate(GetCart(@), product_id, qty.val))]
                    /\ response' = Redirect("cart_update", "cart", "")
               ELSE /\ sessions' = sessions
                    /\ response' = ServerError("cart_update", "ValueError")
       ELSE /\ sessions' = sessions
            /\ response' = Redirect("cart_update", "cart", "")
    /\ UNCHANGED <<products, orders, orderItems, users, reqs>>

\* cart_remove(request, product_id)
CartRemove(sid, product_id) ==
    /\ sessions' = [sessions EXCEPT ![sid] =
            SaveCart(@, CartAfterRemove(GetCart(@), product_id))]
    /\ response' = Redirect("cart_remove", "cart", "")
    /\ UNCHANGED <<products, orders, orderItems, users, reqs>>

\* checkout(request), behind @login_required
Checkout(sid, method, contact) ==
    LET session == sessions[sid]
        cart == GetCart(session)
        order_id == Len(orders) + 1
        run == CheckoutItems(cart, 1, products, orderItems, order_id)
    IN
    /\ IF session.user = NoUser
       THEN /\ response' = Redirect("checkout", "login", "")
            /\ UNCHANGED <<products, sessions, orders, orderItems>>
       ELSE IF CartIsEmpty(cart)
       THEN /\ response' = Redirect("checkout", "product_list", "Your cart is empty.")
            /\ UNCHANGED <<products, sessions, orders, orderItems>>
       ELSE IF method # "POST"
       THEN /\ response' = Render("checkout", "shop/checkout.html", "")
            /\ UNCHANGED <<products, sessions, orders, orderItems>>
       ELSE IF OrderInsertFails(contact)
       THEN /\ response' = ServerError("checkout", "IntegrityError")
            /\ UNCHANGED <<products, sessions, orders, orderItems>>
       ELSE /\ Len(orders) < MaxOrders
            /\ orders' = Append(orders, NewOrder(session.user, contact))
            /\ products' = run.products
            /\ orderItems' = run.items
            /\ IF run.ok
               THEN /\ sessions' = [sessions EXCEPT ![sid] = SaveCart(@, <<>>)]
                    /\ response' = Redirect("checkout", "order_success", "")
               ELSE /\ sessions' = sessions
                    /\ response' = Http404("checkout")
    /\ UNCHANGED <<users, reqs>>

\* login_view(request)
LoginView(sid, method, name, password) ==
    LET session == sessions[sid]
        direct == Authenticate(users, name, password)
        matches == UsersWithEmail(users, name)
        u == CHOOSE i \in matches : TRUE
        user == IF direct # NoUser THEN direct
                ELSE IF matches = {} THEN NoUser
                ELSE Authenticate(users, users[u].username, password)
    IN
    /\ IF session.user # NoUser
       THEN /\ sessions' = sessions
            /\ response' = Redirect("login_view", "product_list", "")
       ELSE IF method # "POST"
       THEN /\ sessions' = sessions
            /\ response' = Render("login_view", "shop/auth_login.html", "")
       ELSE IF direct = NoUser /\ Cardinality(matches) > 1
       THEN /\ sessions' = sessions
            /\ response' = ServerError("login_view", "MultipleObjectsReturned")
       ELSE IF user # NoUser
       THEN /\ sessions' = [sessions EXCEPT ![sid] = Login(@, user)]
            /\ response' = Redirect("login_view", "product_list", "")
       ELSE /\ sessions' = sessions
            /\ response' = Render("login_view", "shop/auth_login.html",
                                  "Invalid credentials")
    /\ UNCHANGED <<products, orders, orderItems, users, reqs>>

\* logout_view(request)
LogoutView(sid) ==
    /\ sessions' = [sessions EXCEPT ![sid] = Logout(@)]
    /\ response' = Redirect("logout_view", "product_list", "")
    /\ UNCHANGED <<products, orders, orderItems, users, reqs>>

\* A change of Product.price made outside the views (the admin).
SetPrice(pk, price) ==
    /\ pk \in DOMAIN products
    /\ products[pk].price # price
    /\ products' = [products EXCEPT ![pk].price = price]
    /\ UNCHANGED <<sessions, orders, orderItems, users, response, reqs>>

\* A change of Product.is_active made outside the views.
SetActive(pk, flag) ==
    /\ pk \in DOMAIN products
    /\ products[pk].is_active # flag
    /\ products' = [products EXCEPT ![pk].is_active = flag]
    /\ UNCHANGED <<sessions, orders, orderItems, users, response, reqs>>

\* Product rows referenced by an OrderItem are protected (on_delete=PROTECT).
Protected(items, pk) == \E i \in 1..Len(items) : items[i].product = pk

\* Deletion of a Product row made outside the views.
DeleteProduct(pk) ==
    /\ pk \in DOMAIN products
    /\ ~Protected(orderItems, pk)
    /\ products' = [q \in DOMAIN products \ {pk} |-> products[q]]
    /\ UNCHANGED <<sessions, orders, orderItems, users, response, reqs>>

Visitor == "s1"

\* The product whose price the shop changes.
RepricedIds == {1}

Next ==
    \/ \E p \in UrlProductIds : CartAdd(Visitor, p)
    \/ \E p \in UrlProductIds, q \in QtyPosts : CartUpdate(Visitor, "POST", p, q)
    \/ \E p \in UrlProductIds : CartUpdate(Visitor, "GET", p, Absent)
    \/ \E p \in UrlProductIds : CartRemove(Visitor, p)
    \/ \E c \in ContactPosts : Checkout(Visitor, "POST", c)
    \/ Checkout(Visitor, "GET", FilledContact)
    \/ \E n \in LoginNames, pw \in Passwords : LoginView(Visitor, "POST", n, pw)
    \/ LoginView(Visitor, "GET", <<>>, "")
    \/ LogoutView(Visitor)
    \/ \E p \in RepricedIds, v \in Prices : SetPrice(p, v)
    \/ \E p \in ProductIds, b \in BOOLEAN : SetActive(p, b)
    \/ \E p \in ProductIds : DeleteProduct(p)

Spec == Init /\ [][Next]_vars

\* ------------------------------------------------- claims, one request at a time
VisitorCart == GetCart(sessions[Visitor])

LoggedIn == sessions[Visitor].user # NoUser

\* Some line of the cart names a product that is missing or inactive.
HasStaleLine(cart, prods) ==
    \E i \in 1..Len(cart) : ~(PkOf(cart[i].key) \in DOMAIN prods /\ prods[PkOf(cart[i].key)].is_active)

PersistedUnchanged == orders' = orders /\ orderItems' = orderItems /\ products' = products

\* C1: a checkout POST that meets a line whose product is missing or inactive
\* answers NotFound and leaves no Order, no OrderItem and no stock change behind.
C1_StaleCheckoutRollsBack ==
    [][\A c \in ContactPosts :
          (/\ LoggedIn
           /\ VisitorCart # <<>>
           /\ \A f \in ContactFields : c[f] # None
           /\ HasStaleLine(VisitorCart, products)
           /\ Checkout(Visitor, "POST", c))
          => (response'.code = 404 /\ PersistedUnchanged)]_vars

\* The quantity the cart holds for product pk (0 when it holds none).
CartQtyOf(cart, pk) ==
    IF \E i \in 1..Len(cart) : PkOf(cart[i].key) = pk
    THEN cart[CHOOSE i \in 1..Len(cart) : PkOf(cart[i].key) = pk].qty
    ELSE 0

\* C2: a checkout POST that succeeds empties the cart, adds to the new Order
\* exactly one OrderItem per cart line, in order, with that line's product and
\* quantity, and leaves every purchased product with max(0, stock - qty); and
\* a checkout POST by a logged-in visitor with a non-empty cart of active
\* products and no absent form field succeeds whatever the stock is.
C2_SuccessfulCheckout ==
    [][\A c \in ContactPosts :
          (response'.view = "checkout" /\ Checkout(Visitor, "POST", c)) =>
            /\ (response'.to = "order_success") =>
                 /\ GetCart(sessions'[Visitor]) = <<>>
                 /\ Len(orders') = Len(orders) + 1
                 /\ Len(orderItems') = Len(orderItems) + Len(VisitorCart)
                 /\ \A i \in 1..Len(VisitorCart) :
                      LET item == orderItems'[Len(orderItems) + i]
                      IN /\ item.order = Len(orders')
                         /\ IntToStr(item.product) = VisitorCart[i].key
                         /\ item.qty = VisitorCart[i].qty
                 /\ \A pk \in DOMAIN products :
                      LET left == products[pk].stock - CartQtyOf(VisitorCart, pk)
                      IN products'[pk].stock = IF left > 0 THEN left ELSE 0
            /\ (/\ LoggedIn
                /\ VisitorCart # <<>>
                /\ ~HasStaleLine(VisitorCart, products)
                /\ \A f \in ContactFields : c[f] # None)
               => response'.to = "order_success"]_vars

\* A checkout has just succeeded for two units of product 2, of which one was
\* in stock: the stock is 0 and the cart is empty.
C2_Witness ==
    /\ response.view = "checkout" /\ response.to = "order_success"
    /\ VisitorCart = <<>>
    /\ products[2].stock = 0
    /\ \E i \in 1..Len(orderItems) :
         /\ orderItems[i].order = Len(orders)
         /\ orderItems[i].product = 2
         /\ orderItems[i].qty = 2

\* C3: a new OrderItem carries the price its product has when the checkout
\* runs, and no step changes an existing OrderItem or the total amount
\* of an existing Order.
C3_PriceSnapshot ==
    [][/\ Len(orderItems') >= Len(orderItems)
       /\ \A i \in 1..Len(orderItems) : orderItems'[i] = orderItems[i]
       /\ \A i \in (Len(orderItems) + 1)..Len(orderItems') :
            /\ orderItems'[i].order > Len(orders)
            /\ orderItems'[i].price = products[orderItems'[i].product].price
       /\ \A o \in 1..Len(orders) :
            TotalAmount(orderItems', o) = TotalAmount(orderItems, o)]_vars

\* An order made in this run holds two units of a product whose price has
\* changed since: the item keeps the old price.
C3_Witness ==
    \E i \in 1..Len(orderItems) :
        /\ orderItems[i].order > Len(InitOrders)
        /\ orderItems[i].qty = 2
        /\ orderItems[i].product \in DOMAIN products
        /\ orderItems[i].price # products[orderItems[i].product].price
        /\ TotalAmount(orderItems, orderItems[i].order) >= 2 * orderItems[i].price

\* C4: checkout with an empty cart, GET or POST, writes nothing, leaves the
\* cart empty and, for a logged-in visitor (checkout is behind
\* login_required), answers with the empty-cart error.
C4_EmptyCartCheckout ==
    [][\A m \in Methods, c \in ContactPosts :
          (VisitorCart = <<>> /\ response'.view = "checkout" /\ Checkout(Visitor, m, c)) =>
            /\ PersistedUnchanged
            /\ GetCart(sessions'[Visitor]) = <<>>
            /\ LoggedIn => response' = Redirect("checkout", "product_list", "Your cart is empty.")]_vars

\* The empty-cart error has just been given to a logged-in visitor.
C4_Witness ==
    /\ response = Redirect("checkout", "product_list", "Your cart is empty.")
    /\ LoggedIn
    /\ VisitorCart = <<>>

\* C5: a checkout POST in which a contact field is absent or blank fails and
\* creates no Order or OrderItem, changes no stock and keeps the cart.
C5_ContactValidated ==
    [][\A c \in ContactPosts :
          (/\ LoggedIn
           /\ VisitorCart # <<>>
           /\ Checkout(Visitor, "POST", c)
           /\ \E f \in ContactFields : c[f] \in {None, ""})
          => (/\ response'.code \notin {200, 302}
              /\ PersistedUnchanged
              /\ sessions' = sessions)]_vars

CartQtyPositive ==
    \A i \in 1..Len(VisitorCart) : VisitorCart[i].qty \in Nat /\ VisitorCart[i].qty >= 1

\* int() of every qty field the model submits.
ParsedQty == [q \in QtyPosts |-> ParseInt(QtyField(q))]

\* C6: every quantity in the cart is an integer >= 1; a cart_update POST with
\* qty <= 0 removes the line, with qty > 0 sets the quantity to exactly qty and
\* touches no other line; after cart_remove the cart does not hold the product.
C6_CartQuantities ==
    [][/\ CartQtyPositive /\ CartQtyPositive'
       /\ response'.view = "cart_update" =>
            \A p \in UrlProductIds, q \in QtyPosts :
               (ParsedQty[q].ok /\ CartUpdate(Visitor, "POST", p, q)) =>
                 LET n == ParsedQty[q].val
                     after == GetCart(sessions'[Visitor])
                 IN /\ n <= 0 => CartQtyOf(after, p) = 0 /\ IntToStr(p) \notin CartKeys(after)
                    /\ n > 0 => CartQtyOf(after, p) = n
                    /\ \A r \in UrlProductIds \ {p} :
                         CartQtyOf(after, r) = CartQtyOf(VisitorCart, r)
       /\ response'.view = "cart_remove" =>
            \A p \in UrlProductIds :
               CartRemove(Visitor, p) =>
                 /\ IntToStr(p) \notin CartKeys(GetCart(sessions'[Visitor]))
                 /\ \A r \in UrlProductIds \ {p} :
                      CartQtyOf(GetCart(sessions'[Visitor]), r) = CartQtyOf(VisitorCart, r)]_vars

\* cart_update has just set a line to the largest quantity while another line
\* is in the cart.
C6_Witness ==
    /\ response.view = "cart_update" /\ response.code = 302
    /\ Len(VisitorCart) = 2
    /\ VisitorCart[1].qty = MaxQty
    /\ VisitorCart[2].qty = 1

\* C7: a step never writes a cart line (a new one, or a new quantity on an
\* old one) for a product that is missing or inactive.
C7_NoStaleCartWrite ==
    [][\A i \in 1..Len(GetCart(sessions'[Visitor])) :
          LET line == GetCart(sessions'[Visitor])[i]
          IN (line.key \notin CartKeys(VisitorCart)
              \/ CartGet(VisitorCart, line.key, 0) # line.qty)
             => (PkOf(line.key) \in DOMAIN products /\ products[PkOf(line.key)].is_active)]_vars

\* ------------------------------------------------ requests running concurrently
\* Each request is a thread of the server.  A step is one access to shared
\* storage (a database statement, the session's load, the session's save)
\* together with the local computation that follows it.
ReqIds == 1..MaxRequests

Idle == [pc |-> "idle"]

NoProduct == [is_active |-> FALSE, price |-> 0, stock |-> 0]

\* A request's locals: the session as loaded (with the request's own changes),
\* the cart line the checkout loop is at, the Product object it fetched.
NewRequest(view, sid, product_id) ==
    [view |-> view, sid |-> sid, product_id |-> product_id, pc |-> "start",
     session |-> EmptySession, i |-> 0, product |-> NoProduct, order_id |-> 0,
     result |-> NoResponse]

\* The response is sent; the view's locals go out of scope.
Finish(req, result) ==
    [req EXCEPT !.pc = "done", !.result = result,
                !.i = 0, !.product = NoProduct, !.order_id = 0]

\* A fresh shop; alice is logged in in each session (two browsers) and each
\* cart holds one unit of product 1.
ConcProducts ==
    (1 :> [is_active |-> TRUE, price |-> 1000, stock |-> 2])
    @@ (2 :> [is_active |-> TRUE, price |-> 2500, stock |-> 1])

ConcCart == <<[key |-> KeyOf(1), qty |-> 1]>>

\* The product the concurrent requests compete for.
ConcProductIds == {1}

InitConc ==
    /\ products = ConcProducts
    /\ sessions = [sid \in SessionIds |-> [user |-> 1, cart |-> ConcCart]]
    /\ orders = <<>>
    /\ orderItems = <<>>
    /\ users = InitUsers
    /\ response = NoResponse
    /\ reqs = [r \in ReqIds |-> Idle]

\* A request for cart_add or checkout arrives; requests are numbered in their
\* order of arrival.
Arrive(r, view, sid, product_id) ==
    /\ reqs[r].pc = "idle"
    /\ \A q \in ReqIds : q < r => reqs[q].pc # "idle"
    /\ reqs' = [reqs EXCEPT ![r] = NewRequest(view, sid, product_id)]
    /\ UNCHANGED <<products, sessions, orders, orderItems, users, response>>

\* cart_add: get_object_or_404(Product, pk=product_id, is_active=True)
AddGetProduct(r) ==
    /\ reqs[r].pc = "start" /\ reqs[r].view = "cart_add"
    /\ LET req == reqs[r]
       IN reqs' = [reqs EXCEPT ![r] =
              IF ActiveProduct(products, req.product_id)
              THEN [req EXCEPT !.pc = "cart"]
              ELSE Finish(req, Http404("cart_add"))]
    /\ UNCHANGED <<products, sessions, orders, orderItems, users, response>>

\* cart_add: _get_cart loads the session; the cart is changed in the request's copy.
AddLoadCart(r) ==
    /\ reqs[r].pc = "cart" /\ reqs[r].view = "cart_add"
    /\ CartGet(GetCart(sessions[reqs[r].sid]), KeyOf(reqs[r].product_id), 0) < MaxQty
    /\ LET req == reqs[r]
           session == sessions[req.sid]
       IN reqs' = [reqs EXCEPT ![r] =
              [req EXCEPT !.pc = "respond",
                          !.session = SaveCart(session,
                                          CartAfterAdd(GetCart(session), req.product_id))]]
    /\ UNCHANGED <<products, sessions, orders, orderItems, users, response>>

\* Mutant of StoredSession: the save keeps the store's cart when it holds more.
StoredSessionKeepFuller(stored, copy) ==
    IF SumQty(GetCart(stored)) > SumQty(GetCart(copy)) THEN stored ELSE copy

\* What the response's session save stores, given what the store holds now
\* and the request's copy: the copy, whole.
StoredSession(stored, copy) == copy

\* The response of a request that set request.session.modified: the session
\* is saved as the request holds it.
SaveSession(r) ==
    /\ reqs[r].pc = "respond"
    /\ sessions' = [sessions EXCEPT ![reqs[r].sid] = StoredSession(@, reqs[r].session)]
    /\ reqs' = [reqs EXCEPT ![r] =
          Finish(reqs[r], IF reqs[r].view = "cart_add" THEN Redirect("cart_add", "cart", "")
                          ELSE Redirect("checkout", "order_success", ""))]
    /\ UNCHANGED <<products, orders, orderItems, users, response>>

\* checkout (POST, complete contact data): login_required and _get_cart load
\* the session.
CheckoutLoadCart(r) ==
    /\ reqs[r].pc = "start" /\ reqs[r].view = "checkout"
    /\ LET req == reqs[r]
           session == sessions[req.sid]
       IN reqs' = [reqs EXCEPT ![r] =
              IF session.user = NoUser
              THEN Finish(req, Redirect("checkout", "login", ""))
              ELSE IF CartIsEmpty(GetCart(session))
              THEN Finish(req, Redirect("checkout", "product_list", "Your cart is empty."))
              ELSE [req EXCEPT !.pc = "order", !.session = session]]
    /\ UNCHANGED <<products, sessions, orders, orderItems, users, response>>

\* checkout: Order.objects.create(...)
CheckoutCreateOrder(r) ==
    /\ reqs[r].pc = "order"
    /\ Len(orders) < MaxOrders
    /\ orders' = Append(orders, NewOrder(reqs[r].session.user, FilledContact))
    /\ reqs' = [reqs EXCEPT ![r] =
          [reqs[r] EXCEPT !.pc = "line", !.i = 1, !.order_id = Len(orders) + 1]]
    /\ UNCHANGED <<products, sessions, orderItems, users, response>>

\* checkout: get_object_or_404(Product, pk=pid, is_active=True) for line i
CheckoutGetProduct(r) ==
    /\ reqs[r].pc = "line"
    /\ LET req == reqs[r]
           pk == PkOf(GetCart(req.session)[req.i].key)
       IN reqs' = [reqs EXCEPT ![r] =
              IF ActiveProduct(products, pk)
              THEN [req EXCEPT !.pc = "item", !.product = products[pk]]
              ELSE Finish(req, Http404("checkout"))]
    /\ UNCHANGED <<products, sessions, orders, orderItems, users, response>>

\* checkout: OrderItem.objects.create(...) for line i
CheckoutCreateItem(r) ==
    /\ reqs[r].pc = "item"
    /\ LET line == GetCart(reqs[r].session)[reqs[r].i]
       IN orderItems' = Append(orderItems,
              NewOrderItem(reqs[r].order_id, PkOf(line.key), reqs[r].product, line.qty))
    /\ reqs' = [reqs EXCEPT ![r].pc = "stock"]
    /\ UNCHANGED <<products, sessions, orders, users, response>>

\* checkout: product.stock = max(0, product.stock - qty); product.save() writes
\* the row from the fetched object.  After the last line the cart is cleared
\* in the request's copy of the session.
CheckoutSaveProduct(r) ==
    /\ reqs[r].pc = "stock"
    /\ LET line == GetCart(reqs[r].session)[reqs[r].i]
       IN products' = [products EXCEPT ![PkOf(line.key)] =
              [reqs[r].product EXCEPT !.stock = StockAfter(@, line.qty)]]
    /\ LET req == reqs[r]
       IN reqs' = [reqs EXCEPT ![r] =
              IF req.i < Len(GetCart(req.session))
              THEN [req EXCEPT !.pc = "line", !.i = req.i + 1]
              ELSE [req EXCEPT !.pc = "respond", !.session = SaveCart(req.session, <<>>)]]
    /\ UNCHANGED <<sessions, orders, orderItems, users, response>>

NextConc ==
    \/ \E r \in ReqIds, sid \in SessionIds, p \in ConcProductIds : Arrive(r, "cart_add", sid, p)
    \/ \E r \in ReqIds, sid \in SessionIds : Arrive(r, "checkout", sid, 0)
    \/ \E r \in ReqIds : AddGetProduct(r)
    \/ \E r \in ReqIds : AddLoadCart(r)
    \/ \E r \in ReqIds : SaveSession(r)
    \/ \E r \in ReqIds : CheckoutLoadCart(r)
    \/ \E r \in ReqIds : CheckoutCreateOrder(r)
    \/ \E r \in ReqIds : CheckoutGetProduct(r)
    \/ \E r \in ReqIds : CheckoutCreateItem(r)
    \/ \E r \in ReqIds : CheckoutSaveProduct(r)

SpecConc == InitConc /\ [][NextConc]_vars

\* ------------------------------------------------- claims, concurrent requests
Done(r) == reqs[r].pc = "done"

AddSucceeded(r) == Done(r) /\ reqs[r].view = "cart_add" /\ reqs[r].result.code = 302

CheckoutSucceeded(r) ==
    Done(r) /\ reqs[r].view = "checkout" /\ reqs[r].result.to = "order_success"

\* C9: a cart change is a read-modify-write of the whole session without
\* synchronization: cart_add adds 1 to the quantity it loaded, and the save
\* at the response stores the request's copy of the session over whatever
\* the store holds by then.
C9_UnsynchronizedCartWrite ==
    [][\A r \in ReqIds :
          /\ (reqs[r].pc = "cart" /\ reqs'[r].pc = "respond") =>
               CartQtyOf(GetCart(reqs'[r].session), reqs[r].product_id)
                 = CartQtyOf(GetCart(sessions[reqs[r].sid]), reqs[r].product_id) + 1
          /\ (reqs[r].pc = "respond" /\ reqs'[r].pc = "done") =>
               sessions'[reqs[r].sid] = reqs[r].session]_vars

\* All requests are answered.  Two cart_add requests of one session each
\* loaded quantity 1 of product 1 and stored 2, and a checkout of the same
\* session succeeded: the cart holds 2 (1 more than at the start, not 2 more)
\* and is not empty after the checkout.
C9_Witness ==
    /\ \A r \in ReqIds : Done(r)
    /\ \E a1 \in ReqIds, a2 \in ReqIds, c \in ReqIds :
         /\ a1 # a2
         /\ AddSucceeded(a1) /\ AddSucceeded(a2) /\ CheckoutSucceeded(c)
         /\ reqs[a1].sid = "s1" /\ reqs[a2].sid = "s1" /\ reqs[c].sid = "s1"
         /\ reqs[a1].product_id = 1 /\ reqs[a2].product_id = 1
         /\ GetCart(reqs[a1].session) = <<[key |-> <<"1">>, qty |-> 2]>>
         /\ GetCart(reqs[a2].session) = <<[key |-> <<"1">>, qty |-> 2]>>
    /\ GetCart(sessions["s1"]) = <<[key |-> <<"1">>, qty |-> 2]>>

RECURSIVE SoldQty(_, _)
SoldQty(items, pk) ==
    IF items = <<>> THEN 0
    ELSE (IF Head(items).product = pk THEN Head(items).qty ELSE 0) + SoldQty(Tail(items), pk)

\* What the stock of pk would be had the order items been sold one after another.
SerialStock(pk) ==
    LET left == ConcProducts[pk].stock - SoldQty(orderItems, pk)
    IN IF left > 0 THEN left ELSE 0

\* C10: with checkouts running concurrently the stock of a product is never
\* negative, never above what it started at, and never below what selling the
\* order items one after another would leave.
C10_StockNeverNegative ==
    \A pk \in DOMAIN products :
        /\ products[pk].stock >= 0
        /\ products[pk].stock <= ConcProducts[pk].stock
        /\ products[pk].stock >= SerialStock(pk)

\* All requests are answered.  Checkouts of two different sessions both
\* succeeded for product 1, and its stock is not what selling the items one
\* after another leaves: a decrement was overwritten.
C10_Witness ==
    /\ \A r \in ReqIds : reqs[r].pc \in {"idle", "done"}
    /\ \E c1 \in ReqIds, c2 \in ReqIds :
         /\ CheckoutSucceeded(c1) /\ CheckoutSucceeded(c2)
         /\ reqs[c1].sid # reqs[c2].sid
    /\ Len(orders) = 2
    /\ SoldQty(ItemsOf(orderItems, 1), 1) > 0
    /\ SoldQty(ItemsOf(orderItems, 2), 1) > 0
    /\ products[1].stock # SerialStock(1)

\* ---------------------------------------------------------------- registration
InitReg ==
    /\ products = InitProducts
    /\ sessions = [sid \in SessionIds |-> EmptySession]
    /\ orders = <<>>
    /\ orderItems = <<>>
    /\ users = <<>>
    /\ response = NoResponse
    /\ reqs = [r \in ReqIds |-> Idle]

\* register_view up to the comparison of the two passwords: a logged-in
\* visitor is sent away, a GET shows the form, a POST reads its fields.
RegisterArrive(r, sid, method, raw_username, raw_email, password, confirm) ==
    /\ reqs[r].pc = "idle"
    /\ \A q \in ReqIds : q < r => reqs[q].pc # "idle"
    /\ LET req == [view |-> "register", pc |-> "done", username |-> <<>>,
                   email |-> <<>>, password |-> "", result |-> NoResponse]
           form == "shop/auth_register.html"
       IN reqs' = [reqs EXCEPT ![r] =
              IF sessions[sid].user # NoUser
              THEN [req EXCEPT !.result = Redirect("register", "product_list", "")]
              ELSE IF method # "POST"
              THEN [req EXCEPT !.result = Render("register", form, "")]
              ELSE IF password # confirm
              THEN [req EXCEPT !.result = Render("register", form, "Passwords do not match")]
              ELSE [req EXCEPT !.pc = "username",
                        !.username = Strip(raw_username),
                        !.email = Lower(Strip(raw_email)),
                        !.password = password]]
    /\ UNCHANGED <<products, sessions, orders, orderItems, users, response>>

\* register_view: elif User.objects.filter(username=username).exists()
RegisterCheckUsername(r) ==
    /\ reqs[r].pc = "username"
    /\ reqs' = [reqs EXCEPT ![r] =
          IF UsernameTaken(users, reqs[r].username)
          THEN [reqs[r] EXCEPT !.pc = "done",
                    !.result = Render("register", "shop/auth_register.html",
                                      "Username already taken")]
          ELSE [reqs[r] EXCEPT !.pc = "email"]]
    /\ UNCHANGED <<products, sessions, orders, orderItems, users, response>>

\* register_view: elif User.objects.filter(email=email).exists()
RegisterCheckEmail(r) ==
    /\ reqs[r].pc = "email"
    /\ reqs' = [reqs EXCEPT ![r] =
          IF EmailRegistered(users, reqs[r].email)
          THEN [reqs[r] EXCEPT !.pc = "done",
                    !.result = Render("register", "shop/auth_register.html",
                                      "Email already registered")]
          ELSE [reqs[r] EXCEPT !.pc = "create"]]
    /\ UNCHANGED <<products, sessions, orders, orderItems, users, response>>

\* register_view: User.objects.create_user(...)
RegisterCreateUser(r) ==
    /\ reqs[r].pc = "create"
    /\ LET made == CreateUser(users, reqs[r].username, reqs[r].email, reqs[r].password)
       IN /\ made.ok => Len(users) < MaxUsers
          /\ users' = made.users
          /\ reqs' = [reqs EXCEPT ![r] =
                [reqs[r] EXCEPT !.pc = "done",
                     !.result = IF made.ok
                                THEN Redirect("register", "login", "Registration successful.")
                                ELSE ServerError("register", made.exc)]]
    /\ UNCHANGED <<products, sessions, orders, orderItems, response>>

NextReg ==
    \/ \E r \in ReqIds, u \in RawUsernames, e \in RawEmails, pw \in Passwords :
          RegisterArrive(r, Visitor, "POST", u, e, "pw", pw)
    \/ \E r \in ReqIds : RegisterArrive(r, Visitor, "GET", <<>>, <<>>, "", "")
    \/ \E r \in ReqIds : RegisterCheckUsername(r)
    \/ \E r \in ReqIds : RegisterCheckEmail(r)
    \/ \E r \in ReqIds : RegisterCreateUser(r)

SpecReg == InitReg /\ [][NextReg]_vars

\* C8: no two User rows have e-mail addresses that are equal up to letter case.
C8_EmailsUnique ==
    \A i \in 1..Len(users), j \in 1..Len(users) :
        i # j => Lower(users[i].email) # Lower(users[j].email)
=============================================================================
